---- MODULE Spec2Model ----
(***************************************************************************)
(* ByteGo upload gateway: the POST /upload handler of src/src/index.ts,    *)
(* the path template evaluator parsePath of utils.ts (listed at the end of *)
(* src/README.md) and the rename pseudo-code of src/docs/bytego-rpd.md.    *)
(*                                                                         *)
(* A string is a sequence of one-character strings, so that every string   *)
(* operation of the code (trim, replace, substring, lastIndexOf, split)    *)
(* is computed position by position as the JavaScript runtime computes it. *)
(***************************************************************************)
EXTENDS Integers, Sequences, FiniteSets, TLC

VARIABLES
    \* The gateway (src/src/index.ts). env: the bindings of the worker. pc: where
    \* the upload handler stands. req: the request being served. body: its parsed
    \* multipart body. bodyParsed: whether parseBody was called for it. putCall:
    \* the call of BUCKET.put made for it, with what became of it in the store.
    \* response: what was sent to the caller.
    env, pc, req, body, bodyParsed, putCall, response,
    \* What the callers did so far, per client address. failures: the number of
    \* requests in a row that presented a wrong credential. cooled: whether an
    \* hour has passed since the last of them.
    failures, cooled,
    \* Template evaluation runs: the arguments of parsePath, the clock it reads,
    \* and the results of two calls ([done, path, drawn]: the path returned and
    \* the values the random generator handed out).
    argFilename, argFormat, clock, eval1, eval2,
    \* Rename runs: the file handed to rename and the name it returned.
    renFile, renamed

uploadVars == <<env, pc, req, body, bodyParsed, putCall, response, failures, cooled>>

pathVars == <<argFilename, argFormat, clock, eval1, eval2>>

renameVars == <<renFile, renamed>>

vars == <<uploadVars, pathVars, renameVars>>

(***************************************************************************)
(* Bounds of the model.                                                    *)
(***************************************************************************)
\* longest template of the template evaluation runs, counted in pieces
MaxPieces == 2
\* number of values the random generator can hand out in one evaluation
MaxDraws == 2
\* longest stem and longest extension of the rename runs exceed the limit by this much
RenameSlack == 4

(***************************************************************************)
(* JavaScript string primitives.                                           *)
(***************************************************************************)
Digits == <<"0","1","2","3","4","5","6","7","8","9">>

HexDigits == <<"0","1","2","3","4","5","6","7","8","9","a","b","c","d","e","f">>

RECURSIVE NumToString(_)
\* Number.prototype.toString() of a non-negative integer
NumToString(n) == IF n < 10 THEN <<Digits[n + 1]>> ELSE NumToString(n \div 10) \o <<Digits[(n % 10) + 1]>>

RECURSIVE PadStart(_, _, _)
\* String.prototype.padStart(width, fill) with a one-character fill
PadStart(s, width, fill) == IF Len(s) >= width THEN s ELSE PadStart(<<fill>> \o s, width, fill)

\* Number.prototype.toString(16) of a byte
ToHex(b) == IF b < 16 THEN <<HexDigits[b + 1]>> ELSE <<HexDigits[(b \div 16) + 1], HexDigits[(b % 16) + 1]>>

\* String.prototype.substring(from) and substring(from, to), 0-based, with the
\* clamping of negative arguments to 0
Substring(s, from, to) ==
    LET a == IF from < 0 THEN 0 ELSE IF from > Len(s) THEN Len(s) ELSE from
        b == IF to < 0 THEN 0 ELSE IF to > Len(s) THEN Len(s) ELSE to
        lo == IF a < b THEN a ELSE b
        hi == IF a < b THEN b ELSE a
    IN  SubSeq(s, lo + 1, hi)

\* String.prototype.startsWith
StartsWith(s, p) == Len(s) >= Len(p) /\ SubSeq(s, 1, Len(p)) = p

\* does pat occur in s at the 1-based position i
MatchAt(s, i, pat) == i + Len(pat) - 1 <= Len(s) /\ \A j \in 1..Len(pat) : s[i + j - 1] = pat[j]

\* String.prototype.includes
Includes(s, pat) == \E i \in 1..Len(s) : MatchAt(s, i, pat)

\* String.prototype.lastIndexOf(ch), 0-based, -1 when absent
LastIndexOf(s, ch) ==
    LET hits == {i \in 1..Len(s) : s[i] = ch}
    IN  IF hits = {} THEN -1 ELSE (CHOOSE i \in hits : \A j \in hits : j <= i) - 1

\* s.split(ch).pop(): what follows the last ch, the whole string without one
SplitPop(s, ch) == Substring(s, LastIndexOf(s, ch) + 1, Len(s))

WhiteSpace == {" ", "\t"}

RECURSIVE TrimStart(_)
TrimStart(s) == IF s # <<>> /\ Head(s) \in WhiteSpace THEN TrimStart(Tail(s)) ELSE s

RECURSIVE TrimEnd(_)
TrimEnd(s) == IF s # <<>> /\ s[Len(s)] \in WhiteSpace THEN TrimEnd(SubSeq(s, 1, Len(s) - 1)) ELSE s

\* String.prototype.trim
Trim(s) == TrimEnd(TrimStart(s))

RECURSIVE StripLeadingSlashes(_)
\* s.replace(/^\/+/, "")
StripLeadingSlashes(s) == IF s # <<>> /\ Head(s) = "/" THEN StripLeadingSlashes(Tail(s)) ELSE s

RECURSIVE GetSubstitution(_, _, _, _)
\* The expansion of a replacement STRING by String.prototype.replace: $$ is a
\* dollar, $& the match, $` what precedes the match, $' what follows it; the
\* patterns of parsePath have no capture group, so $1.. stay as written.
GetSubstitution(rep, matched, pre, post) ==
    IF rep = <<>> THEN <<>>
    ELSE IF Head(rep) = "$" /\ Len(rep) >= 2 /\ rep[2] \in {"$", "&", "`", "'"}
         THEN (CASE rep[2] = "$" -> <<"$">>
                 [] rep[2] = "&" -> matched
                 [] rep[2] = "`" -> pre
                 [] rep[2] = "'" -> post)
              \o GetSubstitution(SubSeq(rep, 3, Len(rep)), matched, pre, post)
         ELSE <<Head(rep)>> \o GetSubstitution(Tail(rep), matched, pre, post)

\* 1-based position of the first match of pat in s at or after i, 0 without one
NextMatch(s, i, pat) ==
    LET hits == {j \in i..Len(s) : s[j] = pat[1] /\ MatchAt(s, j, pat)}
    IN  IF hits = {} THEN 0 ELSE CHOOSE j \in hits : \A h \in hits : j <= h

RECURSIVE ReplaceFrom(_, _, _, _)
ReplaceFrom(s, i, pat, rep) ==
    LET j == NextMatch(s, i, pat)
    IN  IF j = 0 THEN SubSeq(s, i, Len(s))
        ELSE SubSeq(s, i, j - 1)
             \o GetSubstitution(rep, pat, SubSeq(s, 1, j - 1), SubSeq(s, j + Len(pat), Len(s)))
             \o ReplaceFrom(s, j + Len(pat), pat, rep)

\* s.replace(/pat/g, rep) with a replacement string: every match of the
\* literal pattern, scanned left to right in s itself (the replaced text is
\* not scanned again by the same call)
ReplaceAll(s, pat, rep) == ReplaceFrom(s, 1, pat, rep)

RECURSIVE CountFrom(_, _, _)
CountFrom(s, i, pat) ==
    LET j == NextMatch(s, i, pat)
    IN  IF j = 0 THEN 0 ELSE 1 + CountFrom(s, j + Len(pat), pat)

\* number of matches of /pat/g in s: the number of calls of a replace callback
CountMatches(s, pat) == CountFrom(s, 1, pat)

RECURSIVE ReplaceFnFrom(_, _, _, _, _)
ReplaceFnFrom(s, i, pat, vals, k) ==
    LET j == NextMatch(s, i, pat)
    IN  IF j = 0 THEN SubSeq(s, i, Len(s))
        ELSE SubSeq(s, i, j - 1) \o vals[k] \o ReplaceFnFrom(s, j + Len(pat), pat, vals, k + 1)

\* one value for every match: what s.replace(/pat/g, value) would do
ReplaceFnShared(s, pat, vals) ==
    ReplaceFnFrom(s, 1, pat, [k \in 1..CountMatches(s, pat) |-> vals[1]], 1)

\* s.replace(/pat/g, () => f()): the callback runs once per match, in order,
\* and its k-th result vals[k] replaces the k-th match as it is (no $ expansion)
ReplaceAllFn(s, pat, vals) == ReplaceFnFrom(s, 1, pat, vals, 1)

(***************************************************************************)
(* utils.ts: generateRandomHex and parsePath.                              *)
(***************************************************************************)
RECURSIVE Repeat(_, _)
Repeat(s, n) == IF n <= 0 THEN <<>> ELSE s \o Repeat(s, n - 1)

\* The bytes the random generator writes in one call are modelled by one byte
\* value b filling the array: crypto.getRandomValues(array).
\* generateRandomHex: ceil(length / 2) bytes, each as two hex digits, joined,
\* cut to length.
generateRandomHex(length, b) ==
    Substring(Repeat(PadStart(ToHex(b), 2, "0"), (length + 1) \div 2), 0, length)

\* crypto.randomUUID(): 8-4-4-4-12 lowercase hex digits, version 4, variant 8
randomUUID(b) ==
    LET h == PadStart(ToHex(b), 2, "0")
    IN  Repeat(h, 4) \o <<"-">> \o Repeat(h, 2) \o <<"-", "4">> \o h \o <<h[1]>>
        \o <<"-", "8">> \o h \o <<h[1]>> \o <<"-">> \o Repeat(h, 6)

\* the characters /[a-zA-Z0-9._-]/ keeps
SafeChars ==
    {"a","b","c","d","e","f","g","h","i","j","k","l","m","n","o","p","q","r","s","t","u","v","w","x","y","z",
     "A","B","C","D","E","F","G","H","I","J","K","L","M","N","O","P","Q","R","S","T","U","V","W","X","Y","Z",
     "0","1","2","3","4","5","6","7","8","9",".","_","-"}

\* s.replace(/[^a-zA-Z0-9._-]/g, "_")
Sanitize(s) == [i \in 1..Len(s) |-> IF s[i] \in SafeChars THEN s[i] ELSE "_"]

PhYear == <<"{","y","e","a","r","}">>

PhMonth == <<"{","m","o","n","t","h","}">>

PhDay == <<"{","d","a","y","}">>

PhDate == <<"{","d","a","t","e","}">>

PhTime == <<"{","t","i","m","e","}">>

PhTimestamp == <<"{","t","i","m","e","s","t","a","m","p","}">>

PhTimestampNano == <<"{","t","i","m","e","s","t","a","m","p","_","n","a","n","o","}">>

PhOriginName == <<"{","o","r","i","g","i","n","n","a","m","e","}">>

PhOriginNameWithoutExt == <<"{","o","r","i","g","i","n","n","a","m","e","_","w","i","t","h","o","u","t","_","e","x","t","}">>

PhExt == <<"{","e","x","t","}">>

PhRandomKey8 == <<"{","r","a","n","d","o","m","k","e","y","8","}">>

PhRandomKey16 == <<"{","r","a","n","d","o","m","k","e","y","1","6","}">>

PhUuid == <<"{","u","u","i","d","}">>

\* the k-th value the random generator hands out, rnd being the values it
\* has in store for this evaluation
RndAt(rnd, k) == IF k <= Len(rnd) THEN rnd[k] ELSE 0

\* const ext = extIndex !== -1 ? filename.substring(extIndex) : ""
ExtOf(filename) ==
    LET extIndex == LastIndexOf(filename, ".")
    IN  IF extIndex # -1 THEN Substring(filename, extIndex, Len(filename)) ELSE <<>>

\* filename.split("/").pop()?.split("\\").pop() || filename, then the
\* replacement of every character outside [a-zA-Z0-9._-] by "_"
SafeFilename(filename) ==
    LET last == SplitPop(SplitPop(filename, "/"), "\\")
    IN  Sanitize(IF last # <<>> THEN last ELSE filename)

\* originNameWithoutExt: extIndex is the index in the raw filename, the cut is
\* made at the last dot of the sanitized name
OriginNameWithoutExt(filename) ==
    LET safeFilename == SafeFilename(filename)
    IN  IF LastIndexOf(filename, ".") # -1
        THEN Substring(safeFilename, 0, LastIndexOf(safeFilename, "."))
        ELSE safeFilename

\* The time strings of parsePath. now is the Date read at the start of the
\* call: its local calendar fields, and getTime() as whole seconds (secs) plus
\* milliseconds (ms). timestampNano is (getTime() * 1000000).toString(): the
\* product has 13 significant digits, so the number prints exactly, as the
\* digits of getTime() followed by six zeros.
TimeStrings(now) ==
    LET year == NumToString(now.year)
        month == PadStart(NumToString(now.month0 + 1), 2, "0")
        day == PadStart(NumToString(now.date), 2, "0")
        hours == PadStart(NumToString(now.hours), 2, "0")
        minutes == PadStart(NumToString(now.minutes), 2, "0")
        seconds == PadStart(NumToString(now.seconds), 2, "0")
    IN  [year |-> year, month |-> month, day |-> day,
         dateStr |-> year \o month \o day,
         timeStr |-> year \o month \o day \o hours \o minutes \o seconds,
         timestamp |-> NumToString(now.secs),
         timestampNano |-> NumToString(now.secs) \o PadStart(NumToString(now.ms), 3, "0")
                           \o <<"0","0","0","0","0","0">>]

\* parsePath up to the random variables: the time variables, then the
\* filename variables, each by one global replace with a replacement string
FixedPasses(filename, format, now) ==
    LET t == TimeStrings(now)
        p1 == ReplaceAll(format, PhYear, t.year)
        p2 == ReplaceAll(p1, PhMonth, t.month)
        p3 == ReplaceAll(p2, PhDay, t.day)
        p4 == ReplaceAll(p3, PhDate, t.dateStr)
        p5 == ReplaceAll(p4, PhTime, t.timeStr)
        p6 == ReplaceAll(p5, PhTimestamp, t.timestamp)
        p7 == ReplaceAll(p6, PhTimestampNano, t.timestampNano)
        p8 == ReplaceAll(p7, PhOriginName, SafeFilename(filename))
        p9 == ReplaceAll(p8, PhOriginNameWithoutExt, OriginNameWithoutExt(filename))
    IN  ReplaceAll(p9, PhExt, ExtOf(filename))

\* the random variables of parsePath: each by one global replace whose
\* callback draws from the generator at every match
RandomPasses(p10, rnd) ==
    LET n8 == CountMatches(p10, PhRandomKey8)
        p11 == ReplaceAllFn(p10, PhRandomKey8,
                   [k \in 1..n8 |-> generateRandomHex(8, RndAt(rnd, k))])
        n16 == CountMatches(p11, PhRandomKey16)
        p12 == ReplaceAllFn(p11, PhRandomKey16,
                   [k \in 1..n16 |-> generateRandomHex(16, RndAt(rnd, n8 + k))])
        nu == CountMatches(p12, PhUuid)
        p13 == ReplaceAllFn(p12, PhUuid,
                   [k \in 1..nu |-> randomUUID(RndAt(rnd, n8 + n16 + k))])
    IN  [path |-> p13, draws |-> n8 + n16 + nu]

\* parsePath(filename, format), with the clock and the random generator it
\* reads made explicit. The result holds the path and the number of values
\* drawn from the random generator.
parsePath(filename, format, now, rnd) == RandomPasses(FixedPasses(filename, format, now), rnd)

\* byte values the random generator fills its arrays with
RandBytes == {10, 243}

\* The results one call of parsePath(filename, format) can return under the
\* clock now, the two halves of parsePath applied in turn: the path, and the
\* values the generator handed out, one per draw of the call. A call that
\* draws more than MaxDraws values is outside the bound.
PathResults(filename, format, now) ==
    LET p10 == FixedPasses(filename, format, now)
        n == RandomPasses(p10, <<>>).draws
    IN  IF n > MaxDraws THEN {}
        ELSE {[path |-> RandomPasses(p10, rnd).path, drawn |-> rnd] :
                 rnd \in [1..n -> RandBytes]}

(***************************************************************************)
(* Inputs of the template evaluation runs.                                 *)
(***************************************************************************)
\* 2024-12-25 09:05:03.007 and 2025-01-02 13:44:59.120
Clocks ==
    {[year |-> 2024, month0 |-> 11, date |-> 25, hours |-> 9, minutes |-> 5, seconds |-> 3,
      secs |-> 1735117503, ms |-> 7],
     [year |-> 2025, month0 |-> 0, date |-> 2, hours |-> 13, minutes |-> 44, seconds |-> 59,
      secs |-> 1735825499, ms |-> 120]}

Placeholders ==
    {PhYear, PhMonth, PhDay, PhDate, PhTime, PhTimestamp, PhTimestampNano, PhOriginName,
     PhOriginNameWithoutExt, PhExt, PhRandomKey8, PhRandomKey16, PhUuid}

RandomPlaceholders == {PhRandomKey8, PhRandomKey16, PhUuid}

TimePlaceholders == {PhYear, PhMonth, PhDay, PhDate, PhTime, PhTimestamp, PhTimestampNano}

\* literal text and unrecognized tokens a template is built from
Literals ==
    {<<"/">>, <<"{","f","o","o","}">>, <<"{","r","a","n","d","o","m">>, <<"k","e","y","8","}">>}

Pieces == Placeholders \cup Literals

RECURSIVE Flatten(_)
Flatten(ps) == IF ps = <<>> THEN <<>> ELSE Head(ps) \o Flatten(Tail(ps))

\* the templates: every sequence of at most MaxPieces pieces
PieceSeqs == UNION {[1..n -> Pieces] : n \in 0..MaxPieces}

\* original filenames of the uploaded file
Filenames ==
    {<<"p","h","o","t","o",".","p","n","g">>,
     <<"p","h","o","t","o">>,
     <<"a"," ","b",".","t","x","t">>,
     <<"d","/","e","\\","f",".","j","p","g">>,
     <<"a",".","b","/","c">>,
     <<"a",".","{","u","u","i","d","}">>,
     <<".","b","a","s","h","r","c">>,
     <<"a",".","$","&">>}

(***************************************************************************)
(* Template evaluation runs: parsePath is called twice with the same       *)
(* filename and template under the same clock; the random generator hands  *)
(* out fresh values at every call.                                         *)
(***************************************************************************)
\* no call made yet
NoEval == [done |-> FALSE, path |-> <<>>, drawn |-> <<>>]

PathIdle ==
    /\ argFilename = <<>>
    /\ argFormat = <<>>
    /\ clock = CHOOSE c \in Clocks : c.year = 2024
    /\ eval1 = NoEval
    /\ eval2 = NoEval

PathInit ==
    /\ argFilename \in Filenames
    /\ argFormat \in {Flatten(ps) : ps \in PieceSeqs}
    /\ clock \in Clocks
    /\ eval1 = NoEval
    /\ eval2 = NoEval

\* one call of parsePath(argFilename, argFormat)
Evaluations ==
    {[done |-> TRUE, path |-> r.path, drawn |-> r.drawn] :
        r \in PathResults(argFilename, argFormat, clock)}

EvaluateFirst ==
    /\ ~eval1.done
    /\ eval1' \in Evaluations
    /\ UNCHANGED <<argFilename, argFormat, clock, eval2>>
    /\ UNCHANGED <<uploadVars, renameVars>>

EvaluateAgain ==
    /\ eval1.done
    /\ ~eval2.done
    /\ eval2' \in Evaluations
    /\ UNCHANGED <<argFilename, argFormat, clock, eval1>>
    /\ UNCHANGED <<uploadVars, renameVars>>

PathNext == EvaluateFirst \/ EvaluateAgain

(***************************************************************************)
(* The rename pseudo-code of the design document (section 4.2):            *)
(*     def rename(file):                                                   *)
(*         hash = md5(file.content)[:8]                                    *)
(*         ext = file.ext                                                  *)
(*         max_stem = 40 - len(ext) - 9  # 9 = len("-") + len(hash)        *)
(*         stem = file.stem[:max_stem]                                     *)
(*         return f"{date}/{stem}-{hash}{ext}"                             *)
(***************************************************************************)
\* the limit on the length of a produced filename
NameLimit == 40

\* what the limit reserves for the separator and the hash
HashRoom == 9

\* number of digits kept of the content digest
HashLen == 8

\* Python's s[:n]: the first n items, and for a negative n all but the last -n
PySlice(s, n) ==
    IF n >= 0 THEN SubSeq(s, 1, IF n < Len(s) THEN n ELSE Len(s))
    ELSE SubSeq(s, 1, IF Len(s) + n > 0 THEN Len(s) + n ELSE 0)

\* file.stem[:max_stem] with max_stem = 40 - len(ext) - 9
TruncatedStem(stem, ext) == PySlice(stem, NameLimit - Len(ext) - HashRoom)

\* the filename of rename(file): f"{stem}-{hash}{ext}"
RenamedName(file) ==
    TruncatedStem(file.stem, file.ext) \o <<"-">> \o PySlice(file.digest, HashLen) \o file.ext

\* the {date} of the key: YYYY/MM/DD
DatePath(now) ==
    LET t == TimeStrings(now) IN t.year \o <<"/">> \o t.month \o <<"/">> \o t.day

\* rename(file): f"{date}/{stem}-{hash}{ext}"
rename(file, now) == DatePath(now) \o <<"/">> \o RenamedName(file)

\* md5 digests of the content of the files, 32 hex digits each
Digests == {Repeat(<<"a","1","b","2","c","3","d","4">>, 4), Repeat(<<"0","f">>, 16)}

\* The files of the rename runs: stems of up to NameLimit + RenameSlack
\* characters, extensions (the dot included) of up to NameLimit - HashRoom +
\* RenameSlack characters, or none.
RenameFiles ==
    {[stem |-> Repeat(<<"s">>, n),
      ext |-> IF m = 0 THEN <<>> ELSE <<".">> \o Repeat(<<"e">>, m - 1),
      digest |-> d] :
        n \in 0..(NameLimit + RenameSlack),
        m \in 0..(NameLimit - HashRoom + RenameSlack),
        d \in Digests}

NotRenamed == [done |-> FALSE, name |-> <<>>, key |-> <<>>]

RenameIdle ==
    /\ renFile = [stem |-> <<>>, ext |-> <<>>, digest |-> <<>>]
    /\ renamed = NotRenamed

RenameInit ==
    /\ renFile \in RenameFiles
    /\ renamed = NotRenamed

Rename ==
    /\ ~renamed.done
    /\ \E now \in Clocks :
          renamed' = [done |-> TRUE, name |-> RenamedName(renFile), key |-> rename(renFile, now)]
    /\ UNCHANGED renFile
    /\ UNCHANGED <<uploadVars, pathVars>>

RenameNext == Rename

(***************************************************************************)
(* The gateway: app.post("/upload") of src/src/index.ts.                   *)
(*                                                                         *)
(* A value that may be undefined is a record [defined, str]. The handler   *)
(* keeps nothing from one request to the next and never reads the bucket,  *)
(* so the requests are served one at a time here and the store is what it  *)
(* answers to each put. The handler is cut at its two awaits:              *)
(* c.req.parseBody() and c.env.BUCKET.put().                               *)
(***************************************************************************)
Undefined == [defined |-> FALSE, str |-> <<>>]

Str(s) == [defined |-> TRUE, str |-> s]

\* !v for a value that is a string or undefined
Falsy(v) == ~v.defined \/ v.str = <<>>

\* file.size > 100 * 1024 * 1024
MaxFileSize == 100 * 1024 * 1024

\* what README.md promises: 3 failed attempts, then a ban of one hour
BanThreshold == 3

\* "{year}/{month}/{day}/{randomkey16}{ext}"
DefaultFormat == PhYear \o <<"/">> \o PhMonth \o <<"/">> \o PhDay \o <<"/">> \o PhRandomKey16 \o PhExt

Secret == <<"k","1">>

Addresses == {"10.0.0.5", "10.0.0.6"}

\* the Authorization header of a request: absent, empty, wrong, right
Credentials == {Undefined, Str(<<>>), Str(<<"k","2">>), Str(Secret)}

\* the bindings of the worker
Envs ==
    [AUTH_KEY : {Undefined, Str(<<>>), Str(Secret)},
     UPLOAD_PATH_FORMAT : {Undefined, Str(<<"/","/","a","{","e","x","t","}">>), Str(<<"/","{","o","r","i","g","i","n","n","a","m","e","}">>)},
     PUBLIC_DOMAIN : {Undefined, Str(<<"h","t","t","p","s",":","/","/","c","d","n",".","e","x","a","m","p","l","e",".","c","o","m","/">>)}]

\* the "file" field of the body: missing, a plain string, or a File
NoFile == [kind |-> "missing", name |-> <<>>, size |-> 0, type |-> ""]

Files ==
    {NoFile, [kind |-> "string", name |-> <<>>, size |-> 0, type |-> ""]}
    \cup [kind : {"file"}, name : {<<"p","h","o","t","o",".","p","n","g">>, <<"a",".","b","/","c">>},
          size : {1, MaxFileSize, MaxFileSize + 1}, type : {"", "image/png"}]

\* the "customPath" field of the body
CustomPaths ==
    {Undefined, Str(<<>>), Str(<<" "," ">>),
     Str(<<"/",".",".","/",".",".","/","e","t","c","/","p","a","s","s","w","d">>),
     Str(<<" ","/","/","x","/","y",".","p","n","g"," ">>),
     Str(<<"d","o","c","s","/","a",".","t","x","t">>)}

Bodies == [file : Files, customPath : CustomPaths]

\* what parseBody and put can throw
BodyErrors == {"TypeError: Failed to parse body as FormData"}

StoreErrors ==
    {"Error: put: 403 AccessDenied for key id 4f1c9a",
     "Error: put: connect https://acct.r2.cloudflarestorage.com failed"}

NoRequest == [addr |-> "", auth |-> Undefined, priorFailures |-> 0, priorCooled |-> TRUE]

NoBody == [file |-> NoFile, customPath |-> Undefined]

NoPut == [state |-> "none", key |-> <<>>, contentType |-> "", originalName |-> <<>>,
          uploadedAt |-> 0, uploaderIp |-> ""]

NoResponse == [sent |-> FALSE, status |-> 0, msg |-> "", url |-> Undefined, error |-> Undefined]

\* c.json({ msg }, status)
Json(msg, status) ==
    [sent |-> TRUE, status |-> status, msg |-> msg, url |-> Undefined, error |-> Undefined]

\* c.json({ msg: "success", url }): status 200
SuccessResponse(url) ==
    [sent |-> TRUE, status |-> 200, msg |-> "success", url |-> Str(url), error |-> Undefined]

\* c.json({ msg: "Upload failed", error: String(e) }, 500)
UploadFailed(e) ==
    [sent |-> TRUE, status |-> 500, msg |-> "Upload failed", url |-> Undefined, error |-> Str(e)]

\* an admission check that lets a request without Authorization header through
AuthStatusHeaderOptional(authKey, envKey) ==
    IF Falsy(envKey) THEN 500
    ELSE IF authKey.defined /\ authKey # envKey THEN 401
    ELSE 0

\* Lines 44-51: 500 when AUTH_KEY is not set, 401 when the Authorization
\* header is not AUTH_KEY, 0 when the request is let in.
AuthStatus(authKey, envKey) ==
    IF Falsy(envKey) THEN 500
    ELSE IF authKey # envKey THEN 401
    ELSE 0

\* typeof customPath === "string" && customPath.trim() !== ""
UsesCustomPath(customPath) == customPath.defined /\ Trim(customPath.str) # <<>>

\* customPath.trim().replace(/^\/+/, "")
CustomKey(customPath) == StripLeadingSlashes(Trim(customPath.str))

\* c.env.UPLOAD_PATH_FORMAT || "{year}/{month}/{day}/{randomkey16}{ext}"
FormatOf(e) == IF Falsy(e.UPLOAD_PATH_FORMAT) THEN DefaultFormat ELSE e.UPLOAD_PATH_FORMAT.str

\* if (path.startsWith("/")) path = path.substring(1)
EnsureRelative(path) == IF StartsWith(path, <<"/">>) THEN Substring(path, 1, Len(path)) ELSE path

\* Lines 68-83: the keys the handler can pass to put for a body, under the
\* clock now
ResolvedKeys(b, e, now) ==
    IF UsesCustomPath(b.customPath)
    THEN {EnsureRelative(CustomKey(b.customPath))}
    ELSE {EnsureRelative(r.path) : r \in PathResults(b.file.name, FormatOf(e), now)}

\* (c.env.PUBLIC_DOMAIN || "").replace(/\/$/, "")
PublicDomain(e) ==
    LET d == IF Falsy(e.PUBLIC_DOMAIN) THEN <<>> ELSE e.PUBLIC_DOMAIN.str
    IN  IF d # <<>> /\ d[Len(d)] = "/" THEN SubSeq(d, 1, Len(d) - 1) ELSE d

\* `${publicDomain}/${path}`
UrlOf(e, path) == PublicDomain(e) \o <<"/">> \o path

UploadIdle ==
    /\ env = [AUTH_KEY |-> Undefined, UPLOAD_PATH_FORMAT |-> Undefined, PUBLIC_DOMAIN |-> Undefined]
    /\ pc = "idle"
    /\ req = NoRequest
    /\ body = NoBody
    /\ bodyParsed = FALSE
    /\ putCall = NoPut
    /\ response = NoResponse
    /\ failures = [a \in Addresses |-> 0]
    /\ cooled = [a \in Addresses |-> TRUE]

UploadInit ==
    /\ env \in Envs
    /\ pc = "idle"
    /\ req = NoRequest
    /\ body = NoBody
    /\ bodyParsed = FALSE
    /\ putCall = NoPut
    /\ response = NoResponse
    /\ failures = [a \in Addresses |-> 0]
    /\ cooled = [a \in Addresses |-> TRUE]

\* A request arrives and the handler runs to its first await (lines 41-54):
\* it answers 500 or 401, or calls parseBody.
Receive ==
    /\ pc = "idle"
    /\ \E addr \in Addresses, auth \in Credentials :
          LET status == AuthStatus(auth, env.AUTH_KEY)
              wrong == ~Falsy(env.AUTH_KEY) /\ auth # env.AUTH_KEY
          IN  /\ req' = [addr |-> addr, auth |-> auth,
                         priorFailures |-> failures[addr], priorCooled |-> cooled[addr]]
              /\ failures' = [failures EXCEPT ![addr] =
                                 IF Falsy(env.AUTH_KEY) THEN @
                                 ELSE IF ~wrong THEN 0
                                 ELSE IF @ >= BanThreshold THEN (IF cooled[addr] THEN 1 ELSE @)
                                 ELSE @ + 1]
              /\ cooled' = [cooled EXCEPT ![addr] = IF wrong THEN FALSE ELSE @]
              /\ IF status = 500
                 THEN /\ response' = Json("Server configuration error: AUTH_KEY not set", 500)
                      /\ pc' = "done"
                      /\ bodyParsed' = FALSE
                 ELSE IF status = 401
                 THEN /\ response' = Json("Unauthorized: Invalid AUTH_KEY", 401)
                      /\ pc' = "done"
                      /\ bodyParsed' = FALSE
                 ELSE /\ response' = NoResponse
                      /\ pc' = "parsing"
                      /\ bodyParsed' = TRUE
    /\ UNCHANGED <<env, body, putCall>>
    /\ UNCHANGED <<pathVars, renameVars>>

\* a file check that takes any "file" field for a File
NoFileUploadedAnyField(file) == file.kind = "missing"

\* !file || !(file instanceof File)
NoFileUploaded(file) == file.kind # "file"

\* a size check that also turns away a file of exactly the maximum size
TooLargeInclusive(file) == file.size >= MaxFileSize

\* file.size > 100 * 1024 * 1024
TooLarge(file) == file.size > MaxFileSize

\* parseBody resolves and the handler runs to its second await (lines 55-95):
\* it answers 400 or 413, or resolves the key and calls put.
ParseBodyResolves ==
    /\ pc = "parsing"
    /\ \E b \in Bodies, now \in Clocks :
          /\ body' = b
          /\ IF NoFileUploaded(b.file)
             THEN /\ response' = Json("No file uploaded", 400)
                  /\ pc' = "done"
                  /\ putCall' = putCall
             ELSE IF TooLarge(b.file)
             THEN /\ response' = Json("File too large. Max size is 100MB", 413)
                  /\ pc' = "done"
                  /\ putCall' = putCall
             ELSE /\ \E path \in ResolvedKeys(b, env, now) :
                        putCall' = [state |-> "pending", key |-> path,
                                    contentType |-> IF b.file.type = ""
                                                    THEN "application/octet-stream"
                                                    ELSE b.file.type,
                                    originalName |-> b.file.name,
                                    uploadedAt |-> now.secs,
                                    uploaderIp |-> req.addr]
                  /\ response' = response
                  /\ pc' = "putting"
    /\ UNCHANGED <<env, req, bodyParsed, failures, cooled>>
    /\ UNCHANGED <<pathVars, renameVars>>

\* parseBody throws: the catch of line 106 answers 500
ParseBodyThrows ==
    /\ pc = "parsing"
    /\ \E e \in BodyErrors : response' = UploadFailed(e)
    /\ pc' = "done"
    /\ UNCHANGED <<env, req, body, bodyParsed, putCall, failures, cooled>>
    /\ UNCHANGED <<pathVars, renameVars>>

\* a handler that answers success whatever became of the put
PutRejectsUnnoticed ==
    /\ pc = "putting"
    /\ putCall' = [putCall EXCEPT !.state = "rejected"]
    /\ response' = SuccessResponse(UrlOf(env, putCall.key))
    /\ pc' = "done"
    /\ UNCHANGED <<env, req, body, bodyParsed, failures, cooled>>
    /\ UNCHANGED <<pathVars, renameVars>>

\* the store acknowledges the put: lines 97-105 answer success with the URL
PutResolves ==
    /\ pc = "putting"
    /\ putCall' = [putCall EXCEPT !.state = "acknowledged"]
    /\ response' = SuccessResponse(UrlOf(env, putCall.key))
    /\ pc' = "done"
    /\ UNCHANGED <<env, req, body, bodyParsed, failures, cooled>>
    /\ UNCHANGED <<pathVars, renameVars>>

\* the put throws: the catch of line 106 answers 500 with String(e)
PutRejects ==
    /\ pc = "putting"
    /\ putCall' = [putCall EXCEPT !.state = "rejected"]
    /\ \E e \in StoreErrors : response' = UploadFailed(e)
    /\ pc' = "done"
    /\ UNCHANGED <<env, req, body, bodyParsed, failures, cooled>>
    /\ UNCHANGED <<pathVars, renameVars>>

\* the response is out and the next request can come
Finish ==
    /\ pc = "done"
    /\ pc' = "idle"
    /\ req' = NoRequest
    /\ body' = NoBody
    /\ bodyParsed' = FALSE
    /\ putCall' = NoPut
    /\ response' = NoResponse
    /\ UNCHANGED <<env, failures, cooled>>
    /\ UNCHANGED <<pathVars, renameVars>>

\* an hour goes by with no request in flight
HourPasses ==
    /\ pc = "idle"
    /\ \E a \in Addresses : ~cooled[a]
    /\ cooled' = [a \in Addresses |-> TRUE]
    /\ UNCHANGED <<env, pc, req, body, bodyParsed, putCall, response, failures>>
    /\ UNCHANGED <<pathVars, renameVars>>

UploadNext ==
    \/ Receive
    \/ ParseBodyResolves
    \/ ParseBodyThrows
    \/ PutResolves
    \/ PutRejects
    \/ Finish
    \/ HourPasses

(***************************************************************************)
(* Specifications.                                                         *)
(***************************************************************************)
Init == UploadInit /\ PathIdle /\ RenameIdle

Next == UploadNext

\* the gateway serving upload requests
Spec == Init /\ [][Next]_vars

InitPath == UploadIdle /\ PathInit /\ RenameIdle

\* parsePath evaluated on its own
SpecPath == InitPath /\ [][PathNext]_vars

InitRename == UploadIdle /\ PathIdle /\ RenameInit

\* rename evaluated on its own
SpecRename == InitRename /\ [][RenameNext]_vars

(***************************************************************************)
(* Properties.                                                             *)
(***************************************************************************)
\* C1: for any client address, once BanThreshold requests in a row from it
\* presented a wrong credential, the next request from it within the hour is
\* answered 403, whatever credential it carries, and is not let in; and a
\* request with the right credential from an address with no failure in the
\* last hour is let in, its failure count back to 0.
C1_BannedAfterThreeFailures ==
    /\ (pc # "idle" /\ req.priorFailures = BanThreshold /\ ~req.priorCooled)
          => (pc = "done" /\ response.status = 403)
    /\ (pc # "idle" /\ req.priorCooled /\ ~Falsy(env.AUTH_KEY) /\ req.auth = env.AUTH_KEY)
          => (bodyParsed /\ response.status \notin {401, 403} /\ failures[req.addr] = 0)

\* does the path hold a ".." segment
HasTraversalSegment(s) ==
    \E i \in 1..(Len(s) - 1) :
        /\ s[i] = "." /\ s[i + 1] = "."
        /\ (i = 1 \/ s[i - 1] = "/")
        /\ (i + 1 = Len(s) \/ s[i + 2] = "/")

\* C2: a request whose customPath holds a ".." segment never has put called
\* for it, and is answered with a rejection.
C2_TraversalOverrideRejected ==
    (body.customPath.defined /\ HasTraversalSegment(body.customPath.str))
        => (putCall.state = "none" /\ pc = "done" /\ response.status # 200)

\* C3: the body is parsed and put is called only for a request whose
\* Authorization header equals a configured AUTH_KEY; with AUTH_KEY not set
\* the request ends with 500, with AUTH_KEY set and another credential, or
\* none, it ends with 401, in both cases with no body parsed and no put.
C3_PutOnlyWhenAuthenticated ==
    /\ (bodyParsed \/ putCall.state # "none")
          => (~Falsy(env.AUTH_KEY) /\ req.auth = env.AUTH_KEY)
    /\ (pc # "idle" /\ Falsy(env.AUTH_KEY))
          => (pc = "done" /\ response.status = 500 /\ ~bodyParsed /\ putCall.state = "none")
    /\ (pc # "idle" /\ ~Falsy(env.AUTH_KEY) /\ req.auth # env.AUTH_KEY)
          => (pc = "done" /\ response.status = 401 /\ ~bodyParsed /\ putCall.state = "none")

\* a request with a credential that is not AUTH_KEY was answered
C3_Witness ==
    /\ pc = "done"
    /\ ~Falsy(env.AUTH_KEY)
    /\ req.auth.defined
    /\ req.auth # env.AUTH_KEY
    /\ response.status = 401

\* C4: a success response is sent only once the store has acknowledged the
\* put of the request, and a request whose put failed is answered 500, not
\* success.
C4_SuccessOnlyAfterAck ==
    /\ (response.sent /\ (response.msg = "success" \/ response.status = 200))
          => putCall.state = "acknowledged"
    /\ putCall.state = "rejected"
          => (response.sent /\ response.status = 500 /\ response.msg # "success"
              /\ ~response.url.defined)

\* the put of a request failed and the request was answered
C4_Witness == putCall.state = "rejected" /\ pc = "done" /\ response.status = 500

\* C5: the key passed to put, which the returned URL ends with, never begins
\* with "/".
C5_KeyNeverStartsWithSlash ==
    putCall.state # "none" => ~StartsWith(putCall.key, <<"/">>)

AllSafe(s) == \A i \in 1..Len(s) : s[i] \in SafeChars

\* C6: the values substituted for {originname}, {originname_without_ext} and
\* {ext} hold only characters of [A-Za-z0-9._-], so a key evaluated from one
\* of these placeholders holds no other character.
C6_FilenameValuesSafe ==
    (eval1.done /\ argFormat \in {PhOriginName, PhOriginNameWithoutExt, PhExt})
        => (/\ AllSafe(eval1.path)
            /\ AllSafe(SafeFilename(argFilename))
            /\ AllSafe(OriginNameWithoutExt(argFilename))
            /\ AllSafe(ExtOf(argFilename)))

\* C7: the filename rename produces (stem, "-", hash, ext) is at most
\* NameLimit characters long, the stem cut to NameLimit - len(ext) - 9
\* characters, and exactly NameLimit long when the uncut name is longer.
C7_RenamedNameWithinLimit ==
    renamed.done =>
        /\ Len(renamed.name) <= NameLimit
        /\ (Len(renFile.stem) + 1 + HashLen + Len(renFile.ext) > NameLimit
               => Len(renamed.name) = NameLimit)

\* the value parsePath computes for a placeholder that is not random
FixedValue(ph, filename, now) ==
    LET t == TimeStrings(now)
    IN  CASE ph = PhYear -> t.year
          [] ph = PhMonth -> t.month
          [] ph = PhDay -> t.day
          [] ph = PhDate -> t.dateStr
          [] ph = PhTime -> t.timeStr
          [] ph = PhTimestamp -> t.timestamp
          [] ph = PhTimestampNano -> t.timestampNano
          [] ph = PhOriginName -> SafeFilename(filename)
          [] ph = PhOriginNameWithoutExt -> OriginNameWithoutExt(filename)
          [] ph = PhExt -> ExtOf(filename)

\* the value generated from the draw d for a random placeholder
RandomValue(ph, d) ==
    CASE ph = PhRandomKey8 -> generateRandomHex(8, d)
      [] ph = PhRandomKey16 -> generateRandomHex(16, d)
      [] ph = PhUuid -> randomUUID(d)

RECURSIVE SubstitutedFrom(_, _, _, _, _, _)
\* The template read once from left to right: a recognized placeholder gives
\* its value, anything else stays. seen counts the random placeholders read
\* so far, by kind; drawn holds the draws in the order parsePath makes them:
\* those of {randomkey8}, then those of {randomkey16}, then those of {uuid}.
SubstitutedFrom(s, i, filename, now, drawn, seen) ==
    IF i > Len(s) THEN <<>>
    ELSE LET hit == {ph \in Placeholders : MatchAt(s, i, ph)}
         IN  IF hit = {} THEN <<s[i]>> \o SubstitutedFrom(s, i + 1, filename, now, drawn, seen)
             ELSE LET ph == CHOOSE x \in hit : TRUE
                      n8 == CountMatches(s, PhRandomKey8)
                      n16 == CountMatches(s, PhRandomKey16)
                      at == CASE ph = PhRandomKey8 -> seen[1] + 1
                              [] ph = PhRandomKey16 -> n8 + seen[2] + 1
                              [] ph = PhUuid -> n8 + n16 + seen[3] + 1
                              [] OTHER -> 0
                      next == CASE ph = PhRandomKey8 -> <<seen[1] + 1, seen[2], seen[3]>>
                                [] ph = PhRandomKey16 -> <<seen[1], seen[2] + 1, seen[3]>>
                                [] ph = PhUuid -> <<seen[1], seen[2], seen[3] + 1>>
                                [] OTHER -> seen
                  IN  (IF ph \in RandomPlaceholders
                       THEN RandomValue(ph, RndAt(drawn, at))
                       ELSE FixedValue(ph, filename, now))
                      \o SubstitutedFrom(s, i + Len(ph), filename, now, drawn, next)

\* C8: the result of parsePath is the template with every occurrence of a
\* recognized placeholder replaced by its value, and every other token and
\* character as it stands, in the same order.
C8_EveryPlaceholderSubstituted ==
    eval1.done =>
        eval1.path = SubstitutedFrom(argFormat, 1, argFilename, clock, eval1.drawn, <<0, 0, 0>>)

\* C9: two evaluations of a template that holds no random and no time
\* placeholder, with the same filename under the same clock, return the same
\* key, whatever the random generator holds at each.
C9_SameKeyWithoutRandomOrTime ==
    (/\ eval1.done
     /\ eval2.done
     /\ \A ph \in RandomPlaceholders \cup TimePlaceholders : ~Includes(argFormat, ph))
        => eval1.path = eval2.path

\* C10: when the template holds a random placeholder n >= 2 times, parsePath
\* draws at least n values, and n values drawn in a row each appear in the
\* result as the value of that placeholder: no one value stands for all the
\* occurrences.
C10_FreshValuePerOccurrence ==
    eval1.done =>
        \A ph \in RandomPlaceholders :
            LET n == CountMatches(argFormat, ph)
            IN  n >= 2 =>
                   /\ Len(eval1.drawn) >= n
                   /\ \E off \in 0..(Len(eval1.drawn) - n) :
                         \A k \in 1..n : Includes(eval1.path, RandomValue(ph, eval1.drawn[off + k]))

\* a template with the same random placeholder twice was evaluated, the
\* generator handing out two different values
C10_Witness ==
    /\ eval1.done
    /\ \E ph \in RandomPlaceholders : argFormat = ph \o ph
    /\ Len(eval1.drawn) = 2
    /\ eval1.drawn[1] # eval1.drawn[2]

C12_StoreErrorNotInResponse ==
    (putCall.state = "rejected" /\ response.sent) =>
        /\ response = Json("Upload failed", 500)
        /\ ~response.error.defined

\* C13 as the specification words it: the body of every request is parsed on
\* reception, before its credential is checked, so a request that was denied
\* had its body parsed and a file part found in it (one with no file part is
\* answered 400, whatever credential it presents).
C13_ParsedBeforeAuthentication ==
    /\ pc # "idle" => bodyParsed
    /\ (pc = "done" /\ response.status \in {401, 403})
          => (bodyParsed /\ body.file.kind = "file")

\* the request being served presented the configured AUTH_KEY
Admitted == ~Falsy(env.AUTH_KEY) /\ req.auth = env.AUTH_KEY

\* the terminal state a response stands for
Denied == ~bodyParsed /\ ~Admitted /\ response.status \in {401, 403, 500} /\ putCall.state = "none"

Failed == bodyParsed /\ Admitted /\ response.status \in {400, 413, 500} /\ putCall.state \in {"none", "rejected"}

Succeeded == bodyParsed /\ Admitted /\ response.status = 200 /\ putCall.state = "acknowledged"

\* where a request stands and what was done for it so far
C13_StateOrder ==
    /\ pc = "idle" => (~response.sent /\ ~bodyParsed /\ putCall.state = "none")
    /\ pc = "parsing" => (~response.sent /\ Admitted /\ bodyParsed /\ putCall.state = "none")
    /\ pc = "putting" => (~response.sent /\ Admitted /\ bodyParsed /\ putCall.state = "pending"
                           /\ body.file.kind = "file")
    /\ pc = "done" => (/\ response.sent
                        /\ (Denied \/ Failed \/ Succeeded)
                        /\ ~(Denied /\ Failed)
                        /\ ~(Denied /\ Succeeded)
                        /\ ~(Failed /\ Succeeded))
    /\ response.status = 400 => (Failed /\ body.file.kind # "file" /\ putCall.state = "none")

\* the steps of a request
C13_StepOrder ==
    /\ pc = "idle" => pc' \in {"idle", "parsing", "done"}
    /\ pc = "parsing" => pc' \in {"putting", "done"}
    /\ pc = "putting" => pc' = "done"
    /\ pc = "done" => pc' = "idle"
    /\ (pc = "idle" /\ pc' = "done") => Denied'
    /\ (pc = "idle" /\ pc' = "parsing") => Admitted'
    /\ (pc = "parsing" /\ pc' = "done") => Failed'
    /\ (pc = "parsing" /\ pc' = "done" /\ ~response'.error.defined /\ body'.file.kind # "file")
          => response'.status = 400
    /\ (pc = "putting" /\ pc' = "done") => (Failed' \/ Succeeded')

\* C13, amended: every upload request follows the order Received ->
\* Authenticating -> {Denied | body parsing} -> {Failed | KeyResolving ->
\* Transferring -> {Succeeded | Failed}} and ends in exactly one terminal
\* state: the credential is checked first and the body is parsed only for an
\* admitted request; an admitted request with no file part goes from parsing
\* directly to Failed(NoFile) with status 400 and no put, and a request that
\* is not admitted ends Denied with its body not parsed.
C13_AuthenticatedBeforeParsed == []C13_StateOrder /\ [][C13_StepOrder]_vars

\* an admitted request with no file part was answered 400
C13_Witness ==
    /\ pc = "done"
    /\ Admitted
    /\ bodyParsed
    /\ body.file.kind # "file"
    /\ response.status = 400
    /\ putCall.state = "none"

====
